---- MODULE Spec2Model ----
(***************************************************************************)
(* netlib.odict: ODict and ODictCaseless, an ordered (key, value) multimap  *)
(* kept as a Python list of two-element lists.                              *)
(*                                                                         *)
(* Python objects are modelled as a heap: `lists` holds the list objects    *)
(* (each a sequence of entry addresses), `ents` the entry objects (a        *)
(* two-element list or tuple), `maps` the ODict objects (class and the      *)
(* address of self.lst).  Text is a sequence of code points.                *)
(***************************************************************************)
EXTENDS Integers, Sequences, FiniteSets, TLC

VARIABLES
  maps,       \* the ODict objects: [cls, lst]; cls = "none" before construction
  lists,      \* heap of list objects: address -> sequence of entry addresses
  ents,       \* heap of entry objects: address -> [kind, k, v]
  held,       \* the list object the caller holds: [ref, what]
  valuelist,  \* the caller's list of values, handed to __setitem__
  origin,     \* how each map was made: "init", "copy", "from_state"
  ret         \* the last call: [op, m, k, v, before, val]

vars == <<maps, lists, ents, held, valuelist, origin, ret>>

\* ---------------------------------------------------------------- bounds
MaxLen == 3     \* longest list of entries
MaxVals == 2    \* longest caller value list
MaxCells == 3   \* places in all the live list objects together

\* ------------------------------------------------------------------ text
\* "a", "A", "b"
Keys == {<<97>>, <<65>>, <<98>>}
\* "1", "e-acute" (U+00E9: two bytes in UTF-8)
Values == {<<49>>, <<233>>}
\* the keys and values of the shared-object specification
HKeys == {<<97>>, <<65>>}
HValues == {<<49>>}
\* (pattern, repl) pairs handed to replace: a literal one-character pattern
HSubs == {<<65, <<97>>>>}
\* a str handed to __setitem__ where a list is expected: "1" followed by e-acute
Texts == {<<49, 233>>}

MapIds == 1..2
Classes == {"ODict", "ODictCaseless"}
\* None: no text holds a negative code point
None == <<-1>>
\* the default handed to get and get_first: None, or the text "d"
Defaults == {None, <<100>>}

\* str.lower on the code points used (ASCII and Latin-1 capitals)
lower(s) ==
  [i \in 1..Len(s) |->
     IF s[i] \in 65..90 \/ s[i] \in 192..214 \/ s[i] \in 216..222
     THEN s[i] + 32 ELSE s[i]]

\* s.encode('utf-8') for code points below U+0800
RECURSIVE encode(_)
encode(s) ==
  IF s = <<>> THEN <<>>
  ELSE (IF s[1] < 128 THEN <<s[1]>>
        ELSE <<192 + (s[1] \div 64), 128 + (s[1] % 64)>>) \o encode(Tail(s))

str_to_bytes(s) == encode(s)

\* sep.join(elements)
RECURSIVE join(_, _)
join(sep, elements) ==
  IF elements = <<>> THEN <<>>
  ELSE IF Len(elements) = 1 THEN elements[1]
  ELSE elements[1] \o sep \o join(sep, Tail(elements))

\* `value in i` on text
IsSubstr(value, i) ==
  \E p \in 0..(Len(i) - Len(value)) :
     \A j \in 1..Len(value) : i[p + j] = value[j]

\* re.subn(str(pattern), str(repl), target) for a literal one-character
\* pattern: <<new text, number of substitutions>>
RECURSIVE safe_subn(_, _, _)
safe_subn(pattern, repl, target) ==
  IF target = <<>> THEN <<<<>>, 0>>
  ELSE LET rest == safe_subn(pattern, repl, Tail(target))
       IN IF target[1] = pattern
          THEN <<repl \o rest[1], rest[2] + 1>>
          ELSE <<<<target[1]>> \o rest[1], rest[2]>>

\* ------------------------------------------------------------------ heap
\* st = [maps, lists, ents]
NewList(st, s) == [st EXCEPT !.lists = Append(@, s)]
LastList(st) == Len(st.lists)
NewEnt(st, kind, k, v) ==
  [st EXCEPT !.ents = Append(@, [kind |-> kind, k |-> k, v |-> v])]
LastEnt(st) == Len(st.ents)

\* the entries of a list object, as values
Deref(st, l) == [i \in 1..Len(st.lists[l]) |-> st.ents[st.lists[l][i]]]
\* the (key, value) pairs of a list object
Pairs(st, l) ==
  [i \in 1..Len(st.lists[l]) |->
     <<st.ents[st.lists[l][i]].k, st.ents[st.lists[l][i]].v>>]

\* ------------------------------------------------------------------ ODict
_kconv(cls, s) == IF cls = "ODictCaseless" THEN lower(s) ELSE s

\* self.lst = lst or []   (lst = 0 is None; an empty list is falsy too)
__init__(st, self, cls, lst) ==
  IF lst = 0 \/ st.lists[lst] = <<>>
  THEN LET s1 == NewList(st, <<>>)
       IN [s1 EXCEPT !.maps[self] = [cls |-> cls, lst |-> LastList(s1)]]
  ELSE [st EXCEPT !.maps[self] = [cls |-> cls, lst |-> lst]]

\* self.lst == other.lst: element-wise, a list never equals a tuple
__eq__(st, self, other) ==
  Deref(st, st.maps[self].lst) = Deref(st, st.maps[other].lst)

RECURSIVE __getitem__loop(_, _, _, _, _)
__getitem__loop(st, self, k, n, r) ==
  LET l == st.lists[st.maps[self].lst]
  IN IF n > Len(l) THEN r
     ELSE LET i == st.ents[l[n]]
          IN __getitem__loop(st, self, k, n + 1,
               IF _kconv(st.maps[self].cls, i.k) = k THEN Append(r, i.v) ELSE r)

__getitem__(st, self, k) ==
  __getitem__loop(st, self, _kconv(st.maps[self].cls, k), 1, <<>>)

\* list(set(...)): the order is unspecified, so a set
keys(st, self) ==
  LET l == st.lists[st.maps[self].lst]
  IN {_kconv(st.maps[self].cls, st.ents[l[n]].k) : n \in 1..Len(l)}

\* _filter_lst had it compared the stored key as it is
RECURSIVE _filter_lst_loop_raw(_, _, _, _, _, _)
_filter_lst_loop_raw(st, self, k, lst, n, new) ==
  IF n > Len(st.lists[lst]) THEN new
  ELSE LET a == st.lists[lst][n]
       IN _filter_lst_loop_raw(st, self, k, lst, n + 1,
            IF st.ents[a].k # k THEN Append(new, a) ELSE new)

RECURSIVE _filter_lst_loop(_, _, _, _, _, _)
_filter_lst_loop(st, self, k, lst, n, new) ==
  IF n > Len(st.lists[lst]) THEN new
  ELSE LET a == st.lists[lst][n]
       IN _filter_lst_loop(st, self, k, lst, n + 1,
            IF _kconv(st.maps[self].cls, st.ents[a].k) # k
            THEN Append(new, a) ELSE new)

\* the new list object is the last one of the result
_filter_lst(st, self, k, lst) ==
  NewList(st, _filter_lst_loop(st, self, _kconv(st.maps[self].cls, k), lst, 1, <<>>))

__len__(st, self) == Len(st.lists[st.maps[self].lst])

\* the walk of __setitem__ had it kept the key of the entry it overwrites
RECURSIVE __setitem__loop_oldkey(_, _, _, _, _)
__setitem__loop_oldkey(acc, self, k, kc, n) ==
  LET l == acc.st.lists[acc.st.maps[self].lst]
  IN IF n > Len(l) THEN acc
     ELSE IF _kconv(acc.st.maps[self].cls, acc.st.ents[l[n]].k) = kc
     THEN IF acc.valuelist # <<>>
          THEN LET s1 == NewEnt(acc.st, "list", acc.st.ents[l[n]].k, Head(acc.valuelist))
               IN __setitem__loop_oldkey(
                    [st |-> s1, new |-> Append(acc.new, LastEnt(s1)),
                     valuelist |-> Tail(acc.valuelist)], self, k, kc, n + 1)
          ELSE __setitem__loop_oldkey(acc, self, k, kc, n + 1)
     ELSE __setitem__loop_oldkey([acc EXCEPT !.new = Append(@, l[n])], self, k, kc, n + 1)

\* acc = [st, new, valuelist]; walks self.lst from position n
RECURSIVE __setitem__loop(_, _, _, _, _)
__setitem__loop(acc, self, k, kc, n) ==
  LET l == acc.st.lists[acc.st.maps[self].lst]
  IN IF n > Len(l) THEN acc
     ELSE IF _kconv(acc.st.maps[self].cls, acc.st.ents[l[n]].k) = kc
     THEN IF acc.valuelist # <<>>
          THEN LET s1 == NewEnt(acc.st, "list", k, Head(acc.valuelist))
               IN __setitem__loop(
                    [st |-> s1, new |-> Append(acc.new, LastEnt(s1)),
                     valuelist |-> Tail(acc.valuelist)], self, k, kc, n + 1)
          ELSE __setitem__loop(acc, self, k, kc, n + 1)
     ELSE __setitem__loop([acc EXCEPT !.new = Append(@, l[n])], self, k, kc, n + 1)

RECURSIVE __setitem__rest(_, _)
__setitem__rest(acc, k) ==
  IF acc.valuelist = <<>> THEN acc
  ELSE LET s1 == NewEnt(acc.st, "list", k, Head(acc.valuelist))
       IN __setitem__rest(
            [st |-> s1, new |-> Append(acc.new, LastEnt(s1)),
             valuelist |-> Tail(acc.valuelist)], k)

\* __setitem__ without the isinstance check: a str is walked character by
\* character
__setitem__unchecked(st, self, k, arg) ==
  LET vals == IF arg.isstr THEN [i \in 1..Len(arg.val) |-> <<arg.val[i]>>] ELSE arg.val
      a1 == __setitem__loop([st |-> st, new |-> <<>>, valuelist |-> vals],
                            self, k, _kconv(st.maps[self].cls, k), 1)
      a2 == __setitem__rest(a1, k)
      s3 == NewList(a2.st, a2.new)
  IN [st |-> [s3 EXCEPT !.maps[self].lst = LastList(s3)],
      valuelist |-> a2.valuelist, err |-> "none"]

\* __setitem__ had it walked a copy of the caller's list
__setitem__copied(st, self, k, arg) ==
  IF arg.isstr
  THEN [st |-> st, valuelist |-> arg.val, err |-> "ValueError"]
  ELSE LET a1 == __setitem__loop([st |-> st, new |-> <<>>, valuelist |-> arg.val],
                                 self, k, _kconv(st.maps[self].cls, k), 1)
           a2 == __setitem__rest(a1, k)
           s3 == NewList(a2.st, a2.new)
       IN [st |-> [s3 EXCEPT !.maps[self].lst = LastList(s3)],
           valuelist |-> arg.val, err |-> "none"]

\* arg = [isstr, val]: a str, or the caller's list object with its values.
\* Result: [st, valuelist (what is left in the caller's list), err]
__setitem__(st, self, k, arg) ==
  IF arg.isstr
  THEN [st |-> st, valuelist |-> arg.val, err |-> "ValueError"]
  ELSE LET a1 == __setitem__loop([st |-> st, new |-> <<>>, valuelist |-> arg.val],
                                 self, k, _kconv(st.maps[self].cls, k), 1)
           a2 == __setitem__rest(a1, k)
           s3 == NewList(a2.st, a2.new)
       IN [st |-> [s3 EXCEPT !.maps[self].lst = LastList(s3)],
           valuelist |-> a2.valuelist, err |-> "none"]

__delitem__(st, self, k) ==
  LET s1 == _filter_lst(st, self, k, st.maps[self].lst)
  IN [s1 EXCEPT !.maps[self].lst = LastList(s1)]

\* __contains__ had it compared with the key as given
RECURSIVE __contains__loop_raw(_, _, _, _)
__contains__loop_raw(st, self, k, n) ==
  LET l == st.lists[st.maps[self].lst]
  IN IF n > Len(l) THEN FALSE
     ELSE IF _kconv(st.maps[self].cls, st.ents[l[n]].k) = k
     THEN TRUE
     ELSE __contains__loop_raw(st, self, k, n + 1)

RECURSIVE __contains__loop(_, _, _, _)
__contains__loop(st, self, k, n) ==
  LET l == st.lists[st.maps[self].lst]
  IN IF n > Len(l) THEN FALSE
     ELSE IF _kconv(st.maps[self].cls, st.ents[l[n]].k) = _kconv(st.maps[self].cls, k)
     THEN TRUE
     ELSE __contains__loop(st, self, k, n + 1)

__contains__(st, self, k) == __contains__loop(st, self, k, 1)

\* add had it stored the normalized key
add_normalized(st, self, key, value) ==
  LET s1 == NewEnt(st, "list", _kconv(st.maps[self].cls, key), value)
  IN [s1 EXCEPT !.lists[st.maps[self].lst] = Append(@, LastEnt(s1))]

add(st, self, key, value) ==
  LET s1 == NewEnt(st, "list", key, value)
  IN [s1 EXCEPT !.lists[st.maps[self].lst] = Append(@, LastEnt(s1))]

get(st, self, k, d) ==
  IF __contains__(st, self, k) THEN __getitem__(st, self, k) ELSE d

get_first(st, self, k, d) ==
  IF __contains__(st, self, k) THEN __getitem__(st, self, k)[1] ELSE d

\* self.lst[:]: a new list object holding the same entry objects
items(st, self) == NewList(st, st.lists[st.maps[self].lst])

\* copy.deepcopy(self.lst): acc = [st, new, memo]; a list entry is copied once
\* (memo), a tuple of text is returned as it is
RECURSIVE deepcopy_loop(_, _, _)
deepcopy_loop(acc, lst, n) ==
  IF n > Len(acc.st.lists[lst]) THEN acc
  ELSE LET a == acc.st.lists[lst][n]
       IN IF acc.st.ents[a].kind = "tuple"
          THEN deepcopy_loop([acc EXCEPT !.new = Append(@, a)], lst, n + 1)
          ELSE IF a \in DOMAIN acc.memo
          THEN deepcopy_loop([acc EXCEPT !.new = Append(@, acc.memo[a])], lst, n + 1)
          ELSE LET s1 == NewEnt(acc.st, "list", acc.st.ents[a].k, acc.st.ents[a].v)
               IN deepcopy_loop(
                    [st |-> s1, new |-> Append(acc.new, LastEnt(s1)),
                     memo |-> (a :> LastEnt(s1)) @@ acc.memo], lst, n + 1)

deepcopy(st, lst) ==
  LET a == deepcopy_loop([st |-> st, new |-> <<>>, memo |-> <<>>], lst, 1)
  IN NewList(a.st, a.new)

\* the new object is map `new`
copy(st, self, new) ==
  LET s1 == deepcopy(st, st.maps[self].lst)
  IN __init__(s1, new, st.maps[self].cls, LastList(s1))

\* self.lst.extend(other.lst): in place, the entry objects of other
extend(st, self, other) ==
  [st EXCEPT !.lists[st.maps[self].lst] = @ \o st.lists[st.maps[other].lst]]

\* format without the closing empty element
format_unclosed(st, self) ==
  LET l == st.lists[st.maps[self].lst]
      elements == [n \in 1..Len(l) |->
                     str_to_bytes(st.ents[l[n]].k) \o <<58, 32>>
                       \o str_to_bytes(st.ents[l[n]].v)]
  IN join(<<13, 10>>, elements)

format(st, self) ==
  LET l == st.lists[st.maps[self].lst]
      elements == [n \in 1..Len(l) |->
                     str_to_bytes(st.ents[l[n]].k) \o <<58, 32>>
                       \o str_to_bytes(st.ents[l[n]].v)]
  IN join(<<13, 10>>, Append(elements, <<>>))

in_any(st, self, key, value, caseless) ==
  LET vs == __getitem__(st, self, key)
      val == IF caseless THEN lower(value) ELSE value
  IN \E n \in 1..Len(vs) :
        IsSubstr(val, IF caseless THEN lower(vs[n]) ELSE vs[n])

\* expr is a literal one-character pattern
match_re(st, self, expr) ==
  LET l == st.lists[st.maps[self].lst]
  IN \E n \in 1..Len(l) :
        IsSubstr(<<expr>>, st.ents[l[n]].k \o <<58, 32>> \o st.ents[l[n]].v)

\* acc = [st, nlst, count]
RECURSIVE replace_loop(_, _, _, _, _)
replace_loop(acc, self, pattern, repl, n) ==
  LET l == acc.st.lists[acc.st.maps[self].lst]
  IN IF n > Len(l) THEN acc
     ELSE LET i == acc.st.ents[l[n]]
              kc == safe_subn(pattern, repl, i.k)
              vc == safe_subn(pattern, repl, i.v)
              s1 == NewEnt(acc.st, "list", kc[1], vc[1])
          IN replace_loop(
               [st |-> s1, nlst |-> Append(acc.nlst, LastEnt(s1)),
                count |-> acc.count + kc[2] + vc[2]], self, pattern, repl, n + 1)

\* Result: [st, count]
replace(st, self, pattern, repl) ==
  LET a == replace_loop([st |-> st, nlst |-> <<>>, count |-> 0], self, pattern, repl, 1)
      s2 == NewList(a.st, a.nlst)
  IN [st |-> [s2 EXCEPT !.maps[self].lst = LastList(s2)], count |-> a.count]

\* [conv(i) for i in lst]: a new list of new entries of kind `kind`;
\* tuple(i) of a tuple is the tuple itself.  acc = [st, new]
RECURSIVE convert_loop(_, _, _, _)
convert_loop(acc, lst, kind, n) ==
  IF n > Len(acc.st.lists[lst]) THEN acc
  ELSE LET a == acc.st.lists[lst][n]
       IN IF kind = "tuple" /\ acc.st.ents[a].kind = "tuple"
          THEN convert_loop([acc EXCEPT !.new = Append(@, a)], lst, kind, n + 1)
          ELSE LET s1 == NewEnt(acc.st, kind, acc.st.ents[a].k, acc.st.ents[a].v)
               IN convert_loop([st |-> s1, new |-> Append(acc.new, LastEnt(s1))],
                               lst, kind, n + 1)

\* the state is the last list object of the result
get_state(st, self) ==
  LET a == convert_loop([st |-> st, new |-> <<>>], st.maps[self].lst, "tuple", 1)
  IN NewList(a.st, a.new)

load_state(st, self, state) ==
  LET a == convert_loop([st |-> st, new |-> <<>>], state, "list", 1)
      s2 == NewList(a.st, a.new)
  IN [s2 EXCEPT !.maps[self].lst = LastList(s2)]

\* from_state had it handed the state to the constructor as it is
from_state_as_is(st, new, klass, state) == __init__(st, new, klass, state)

\* the new object is map `new`
from_state(st, new, klass, state) ==
  LET a == convert_loop([st |-> st, new |-> <<>>], state, "list", 1)
      s2 == NewList(a.st, a.new)
  IN __init__(s2, new, klass, LastList(s2))

\* ------------------------------------------------- the object graph, tidied
\* Objects no variable reaches are dropped and the rest renumbered in the
\* order the maps and the caller reach them: an address has no meaning of
\* its own.
RECURSIVE Dedup(_)
Dedup(s) ==
  IF s = <<>> THEN <<>>
  ELSE LET d == Dedup(SubSeq(s, 1, Len(s) - 1))
       IN IF \E i \in 1..Len(d) : d[i] = s[Len(s)] THEN d ELSE Append(d, s[Len(s)])

Index(s, x) == CHOOSE i \in 1..Len(s) : s[i] = x

RECURSIVE Flatten(_, _)
Flatten(ls, order) ==
  IF order = <<>> THEN <<>> ELSE ls[Head(order)] \o Flatten(ls, Tail(order))

Canon(st, h) ==
  LET roots == [i \in 1..Cardinality(MapIds) |-> st.maps[i].lst] \o <<h.ref>>
      lo == Dedup(SelectSeq(roots, LAMBDA x : x # 0))
      eo == Dedup(Flatten(st.lists, lo))
  IN [maps |-> [m \in MapIds |->
                  [cls |-> st.maps[m].cls,
                   lst |-> IF st.maps[m].lst = 0 THEN 0 ELSE Index(lo, st.maps[m].lst)]],
      lists |-> [i \in 1..Len(lo) |->
                   [j \in 1..Len(st.lists[lo[i]]) |-> Index(eo, st.lists[lo[i]][j])]],
      ents |-> [i \in 1..Len(eo) |-> st.ents[eo[i]]],
      held |-> [h EXCEPT !.ref = IF h.ref = 0 THEN 0 ELSE Index(lo, h.ref)]]

St == [maps |-> maps, lists |-> lists, ents |-> ents]
Live(m) == maps[m].cls # "none"
NoHeld == [ref |-> 0, what |-> "none"]
Call(op, m, k, v, before, val) ==
  [op |-> op, m |-> m, k |-> k, v |-> v, before |-> before, val |-> val]
Before(m) == Pairs(St, maps[m].lst)

Idle == Call("idle", 0, <<>>, <<>>, <<>>, None)

\* the next state of a call made while no call is pending, within the bounds
Store(st, h, vl, og, rt) ==
  LET c == Canon(st, h)
  IN /\ ret.op = "idle"
     /\ Len(Flatten(c.lists, [l \in 1..Len(c.lists) |-> l])) <= MaxCells
     /\ \A l \in 1..Len(c.lists) : Len(c.lists[l]) <= MaxLen
     /\ maps' = c.maps
     /\ lists' = c.lists
     /\ ents' = c.ents
     /\ held' = c.held
     /\ valuelist' = vl
     /\ origin' = og
     /\ ret' = rt

\* the result of a call that changes no object
Keep(rt) ==
  /\ ret.op = "idle"
  /\ ret' = rt
  /\ UNCHANGED <<maps, lists, ents, held, valuelist, origin>>

Made(m, how) == [origin EXCEPT ![m] = how]

\* ---------------------------------------------------------------- actions
Init ==
  /\ maps = [m \in MapIds |-> [cls |-> "none", lst |-> 0]]
  /\ lists = <<>>
  /\ ents = <<>>
  /\ held = NoHeld
  /\ valuelist = <<>>
  /\ origin = [m \in MapIds |-> "none"]
  /\ ret = Idle

\* m = cls()
ConstructEmpty(m, cls) ==
  /\ ~Live(m)
  /\ Store(__init__(St, m, cls, 0), held, valuelist, Made(m, "init"),
           Call("init", m, <<>>, <<>>, <<>>, None))

\* m = cls(lst), lst the list of [key, value] lists the caller holds
ConstructFrom(m, cls) ==
  /\ ~Live(m)
  /\ held.what = "list"
  /\ Store(__init__(St, m, cls, held.ref), held, valuelist, Made(m, "init"),
           Call("init_from", m, <<>>, <<>>, Pairs(St, held.ref), None))

Add(m, k, v) ==
  /\ Live(m)
  /\ Store(add(St, m, k, v), held, valuelist, origin,
           Call("add", m, k, v, Before(m), None))

\* the caller's valuelist.append(v)
ValueAppend(v) ==
  /\ Len(valuelist) < MaxVals
  /\ Store(St, held, Append(valuelist, v), origin,
           Call("valuelist_append", 0, <<>>, v, <<>>, None))

\* m[k] = valuelist
SetValues(m, k) ==
  /\ Live(m)
  /\ LET r == __setitem__(St, m, k, [isstr |-> FALSE, val |-> valuelist])
     IN Store(r.st, held, r.valuelist, origin,
              Call("setitem", m, k, valuelist, Before(m), r.err))

\* m[k] = [v, ...], a list made for the call
SetValuesNew(m, k, vs) ==
  /\ Live(m)
  /\ LET r == __setitem__(St, m, k, [isstr |-> FALSE, val |-> vs])
     IN Store(r.st, held, valuelist, origin,
              Call("setitem", m, k, vs, Before(m), r.err))

\* m[k] = s, a str
SetValuesStr(m, k, s) ==
  /\ Live(m)
  /\ LET r == __setitem__(St, m, k, [isstr |-> TRUE, val |-> s])
     IN Store(r.st, held, valuelist, origin,
              Call("setitem_str", m, k, s, Before(m), r.err))

\* del m[k]
Delete(m, k) ==
  /\ Live(m)
  /\ Store(__delitem__(St, m, k), held, valuelist, origin,
           Call("delitem", m, k, <<>>, Before(m), None))

Extend(m, other) ==
  /\ Live(m) /\ Live(other)
  /\ Store(extend(St, m, other), held, valuelist, origin,
           Call("extend", m, <<>>, other, Before(m), None))

Replace(m, pattern, repl) ==
  /\ Live(m)
  /\ LET r == replace(St, m, pattern, repl)
     IN Store(r.st, held, valuelist, origin,
              Call("replace", m, <<pattern>>, repl, Before(m), r.count))

\* lst = m.items()
Items(m) ==
  /\ Live(m)
  /\ LET s1 == items(St, m)
     IN Store(s1, [ref |-> LastList(s1), what |-> "list"], valuelist,
              origin, Call("items", m, <<>>, <<>>, Before(m), None))

\* new = m.copy()
Copy(m, new) ==
  /\ Live(m) /\ ~Live(new)
  /\ Store(copy(St, m, new), held, valuelist, Made(new, "copy"),
           Call("copy", new, <<>>, m, Before(m), None))

\* state = m.get_state()
GetState(m) ==
  /\ Live(m)
  /\ LET s1 == get_state(St, m)
     IN Store(s1, [ref |-> LastList(s1), what |-> "state"], valuelist,
              origin, Call("get_state", m, <<>>, <<>>, Before(m), None))

\* m.load_state(state)
LoadState(m) ==
  /\ Live(m)
  /\ held.what = "state"
  /\ Store(load_state(St, m, held.ref), held, valuelist, origin,
           Call("load_state", m, <<>>, <<>>, Before(m), None))

\* new = klass.from_state(m.get_state())
FromState(new, klass, m) ==
  /\ Live(m) /\ ~Live(new)
  /\ LET s1 == get_state(St, m)
     IN Store(from_state(s1, new, klass, LastList(s1)), held, valuelist,
              Made(new, "from_state"),
              Call("from_state", new, <<>>, m, Before(m), None))

Format(m) ==
  /\ Live(m)
  /\ Keep(
           Call("format", m, <<>>, <<>>, Before(m), format(St, m)))

\* k in m, m[k], m.keys(), len(m), m.get(k, d), m.get_first(k, d)
Lookup(m, k, d) ==
  /\ Live(m)
  /\ Keep(
           Call("lookup", m, k, d, Before(m),
                [contains |-> __contains__(St, m, k),
                 getitem |-> __getitem__(St, m, k),
                 keys |-> keys(St, m),
                 len |-> __len__(St, m),
                 get |-> get(St, m, k, d),
                 get_first |-> get_first(St, m, k, d)]))

InAny(m, k, v, caseless) ==
  /\ Live(m)
  /\ Keep(
           Call("in_any", m, k, v, Before(m), in_any(St, m, k, v, caseless)))

MatchRe(m, expr) ==
  /\ Live(m)
  /\ Keep(
           Call("match_re", m, <<expr>>, <<>>, Before(m), match_re(St, m, expr)))

\* for e in m: e[0] = k   (the n-th entry the iteration hands out)
EntrySet(m, n, k) ==
  /\ Live(m)
  /\ n \in 1..Len(lists[maps[m].lst])
  /\ ents[lists[maps[m].lst][n]].kind = "list"
  /\ ents[lists[maps[m].lst][n]].k # k
  /\ Store([St EXCEPT !.ents[lists[maps[m].lst][n]].k = k], held, valuelist, origin,
           Call("entry_set", m, k, n, Before(m), None))

\* lst = []
CallerNewList ==
  /\ LET s1 == NewList(St, <<>>)
     IN Store(s1, [ref |-> LastList(s1), what |-> "list"], valuelist,
              origin, Call("caller_list", 0, <<>>, <<>>, <<>>, None))

\* lst.append([k, v]) on the list the caller holds
CallerAppend(k, v) ==
  /\ held.what = "list"
  /\ LET s1 == NewEnt(St, "list", k, v)
     IN Store([s1 EXCEPT !.lists[held.ref] = Append(@, LastEnt(s1))], held,
              valuelist, origin,
              Call("caller_append", 0, k, v, Pairs(St, held.ref), None))

\* the caller takes the result of the call
Return ==
  /\ ret.op # "idle"
  /\ ret' = Idle
  /\ UNCHANGED <<maps, lists, ents, held, valuelist, origin>>

\* every operation, on maps that may share objects
Next ==
  \/ Return
  \/ \E cls \in Classes : ConstructEmpty(1, cls)
  \/ \E cls \in Classes : ConstructFrom(1, cls)
  \/ \E m \in MapIds, k \in HKeys, v \in HValues : Add(m, k, v)
  \/ \E m \in MapIds, k \in HKeys, v \in HValues : SetValuesNew(m, k, <<v>>)
  \/ \E m \in MapIds, k \in HKeys : Delete(m, k)
  \/ \E m, other \in MapIds : Extend(m, other)
  \/ \E m \in MapIds, p \in HSubs : Replace(m, p[1], p[2])
  \/ \E m \in MapIds : Items(m)
  \/ \E m, new \in MapIds : Copy(m, new)
  \/ \E m \in MapIds : GetState(m)
  \/ \E m \in MapIds : LoadState(m)
  \/ \E new, m \in MapIds, klass \in Classes : FromState(new, klass, m)
  \/ \E m \in MapIds : Format(m)
  \/ \E m \in MapIds : Lookup(m, <<65>>, None)
  \/ \E m \in MapIds, v \in HValues : InAny(m, <<65>>, v, TRUE)
  \/ \E m \in MapIds, c \in {65} : MatchRe(m, c)
  \/ \E m \in MapIds, n \in 1..MaxLen, k \in HKeys : EntrySet(m, n, k)
  \/ CallerNewList
  \/ \E k \in HKeys, v \in HValues : CallerAppend(k, v)

Spec == Init /\ [][Next]_vars

\* the operations of one map, over the larger alphabet
NextOps ==
  \/ Return
  \/ \E cls \in Classes : ConstructEmpty(1, cls)
  \/ \E k \in Keys, v \in Values : Add(1, k, v)
  \/ \E v \in Values : ValueAppend(v)
  \/ \E k \in Keys : SetValues(1, k)
  \/ \E k \in Keys, s \in Texts : SetValuesStr(1, k, s)
  \/ \E k \in Keys : Delete(1, k)
  \/ Format(1)
  \/ \E k \in Keys, d \in Defaults : Lookup(1, k, d)

SpecOps == Init /\ [][NextOps]_vars

\* ------------------------------------------------------- stating the claims
Caseless(m) == maps[m].cls = "ODictCaseless"
\* two keys name the same entries of map m
SameKey(m, a, b) == IF Caseless(m) THEN lower(a) = lower(b) ELSE a = b
PairsIn(st, m) == Pairs(st, st.maps[m].lst)
Now(m) == PairsIn(St, m)
Hits(m, s, k) == {i \in 1..Len(s) : SameKey(m, s[i][1], k)}

\* the elements of s at the positions in `keep`, in order
RECURSIVE Pick(_, _, _)
Pick(s, keep, n) ==
  IF n = 0 THEN <<>>
  ELSE Pick(s, keep, n - 1) \o (IF n \in keep THEN <<s[n]>> ELSE <<>>)

Column(s, c) == [i \in 1..Len(s) |-> s[i][c]]

\* what set_values(k, vs) makes of the entries `old` of map m
SetValuesExpected(m, old, k, vs) ==
  LET hit == Hits(m, old, k)
      rank == [i \in 1..Len(old) |-> Cardinality({j \in hit : j <= i})]
      body == [i \in 1..Len(old) |->
                 IF i \in hit /\ rank[i] <= Len(vs) THEN <<k, vs[rank[i]]>> ELSE old[i]]
      keep == {i \in 1..Len(old) : i \notin hit \/ rank[i] <= Len(vs)}
      tail == [j \in 1..(Len(vs) - Cardinality(hit)) |-> <<k, vs[Cardinality(hit) + j]>>]
  IN Pick(body, keep, Len(old)) \o (IF Len(vs) > Cardinality(hit) THEN tail ELSE <<>>)

\* C1: after set_values(k, vs) the entries are the old ones with the i-th
\* entry matching k rewritten in place to (k, vs[i]), the matching entries
\* beyond Len(vs) removed, the other entries untouched and the values left
\* over appended as (k, v); get_all(k) is then vs and the length is the old
\* length minus the number of matches plus Len(vs).
C1_SetValuesEffect ==
  (ret.op = "setitem" /\ ret.val = "none") =>
     /\ Now(ret.m) = SetValuesExpected(ret.m, ret.before, ret.k, ret.v)
     /\ __getitem__(St, ret.m, ret.k) = ret.v
     /\ __len__(St, ret.m) =
          Len(ret.before) - Cardinality(Hits(ret.m, ret.before, ret.k)) + Len(ret.v)

\* two values for one earlier match of another casing, past an entry of another key
C1_Witness ==
  /\ ret.op = "setitem" /\ ret.val = "none"
  /\ Cardinality(Hits(ret.m, ret.before, ret.k)) = 1
  /\ Len(ret.v) = 2
  /\ \E i \in Hits(ret.m, ret.before, ret.k) :
        /\ ret.before[i][1] # ret.k
        /\ i < Len(ret.before)

\* C2: set_values with a str in place of a list ends in ValueError and
\* leaves the entries as they were.
C2_StrRejected ==
  ret.op = "setitem_str" => (ret.val = "ValueError" /\ Now(ret.m) = ret.before)

C2_Witness ==
  /\ ret.op = "setitem_str"
  /\ Hits(ret.m, ret.before, ret.k) # {}
  /\ Len(ret.v) = 2

\* C3: from_state(m.get_state()) equals m, and neither a mutation of the
\* restored map changes m, nor a mutation of m the restored map, nor any
\* mutation a state taken before.
Mutations == {"add", "setitem", "delitem", "extend", "replace", "load_state"}
Other(m) == IF m = 1 THEN 2 ELSE 1
HeldEntries == Deref(St, held.ref)

C4_CopyIndependent ==
  [][/\ ret'.op = "copy" =>
          __eq__(St', ret'.m, ret'.v) /\ maps'[ret'.m].cls = maps[ret'.v].cls
     /\ (ret'.op \in Mutations \cup {"entry_set"} /\ origin[2] = "copy") =>
          PairsIn(St', Other(ret'.m)) = Now(Other(ret'.m))]_vars

\* C5: no list object and no entry object of a map is also held by the
\* other map or by the caller.
Entries(l) == {lists[l][i] : i \in 1..Len(lists[l])}
C5_NothingShared ==
  /\ \A m \in MapIds :
       (Live(m) /\ held.ref # 0) =>
          /\ held.ref # maps[m].lst
          /\ Entries(held.ref) \cap Entries(maps[m].lst) = {}
  /\ (Live(1) /\ Live(2)) =>
       /\ maps[1].lst # maps[2].lst
       /\ Entries(maps[1].lst) \cap Entries(maps[2].lst) = {}

\* the header lines, each closed by CRLF
RECURSIVE Lines(_)
Lines(s) ==
  IF s = <<>> THEN <<>>
  ELSE encode(s[1][1]) \o <<58, 32>> \o encode(s[1][2]) \o <<13, 10>> \o Lines(Tail(s))

EndsWithCRLF(b) == Len(b) >= 2 /\ b[Len(b) - 1] = 13 /\ b[Len(b)] = 10

\* C6 as claimed: format() of every map is its lines in order and ends with CRLF.
C6_FormatEndsWithCRLF ==
  ret.op = "format" => (ret.val = Lines(ret.before) /\ EndsWithCRLF(ret.val))

\* C6: format() is the entries in order as key ": " value, each closed by
\* CRLF, so it ends with CRLF when the map holds an entry and is empty when
\* the map is empty; the map is left as it was.
C6_Format ==
  ret.op = "format" =>
     /\ ret.val = Lines(ret.before)
     /\ ret.before # <<>> => EndsWithCRLF(ret.val)
     /\ ret.before = <<>> => ret.val = <<>>
     /\ Now(ret.m) = ret.before

\* two entries, one with a value of two bytes
C6_Witness ==
  /\ ret.op = "format"
  /\ Len(ret.before) = 2
  /\ ret.before[1][2] = <<233>>
  /\ ret.val = <<97, 58, 32, 195, 169, 13, 10, 65, 58, 32, 49, 13, 10>>

\* the key texts of a caseless map are those of before the call, but for
\* what the call takes away or appends
KeyTexts(m) == Column(Now(m), 1)
KeysKept(ops) ==
  \A m \in MapIds :
    (ret'.op \in ops /\ Live(m) /\ Caseless(m)) =>
       LET old == KeyTexts(m)
           new == Column(PairsIn(St', m), 1)
       IN IF ret'.m # m THEN new = old
          ELSE CASE ret'.op = "add" -> new = Append(old, ret'.k)
                 [] ret'.op = "extend" -> new = old \o KeyTexts(ret'.v)
                 [] ret'.op = "delitem" ->
                      new = Pick(old, {i \in 1..Len(old) : lower(old[i]) # lower(ret'.k)},
                                 Len(old))
                 [] OTHER -> new = old

ReadOnly == {"lookup", "in_any", "match_re", "format", "copy", "items", "get_state",
             "from_state"}

\* C7 as claimed: replace is among the operations that keep the key texts.
C7_KeysKeptByReplaceToo ==
  [][KeysKept({"add", "delitem", "extend", "replace"} \cup ReadOnly)]_vars

\* C7: in a caseless map add, delete, extend, the lookups, in_any, match_re,
\* format, copy and get_state leave the key text of every entry that stays
\* as it was stored; set_values and replace rewrite key texts.
C7_KeysKept ==
  [][KeysKept({"add", "delitem", "extend"} \cup ReadOnly)]_vars

\* a key of another casing was added to a caseless map
C7_Witness ==
  /\ ret.op = "add" /\ Caseless(ret.m)
  /\ ret.k = <<97>>
  /\ \E i \in 1..Len(ret.before) : ret.before[i][1] = <<65>>

\* C8: get_all(k) is the values of the entries whose key matches k, in
\* order; contains(k) says whether there is one, as does membership of the
\* normalized k in keys(); get and get_first give get_all(k) and its first
\* value, or the default when there is none; the map is left as it was.
C8_Lookup ==
  ret.op = "lookup" =>
     LET hit == Hits(ret.m, ret.before, ret.k)
         all == Column(Pick(ret.before, hit, Len(ret.before)), 2)
         nk == IF Caseless(ret.m) THEN lower(ret.k) ELSE ret.k
     IN /\ ret.val.getitem = all
        /\ ret.val.contains = (hit # {})
        /\ ret.val.contains = (ret.val.getitem # <<>>)
        /\ ret.val.contains = (nk \in ret.val.keys)
        /\ ret.val.len = Len(ret.before)
        /\ ret.val.get = (IF hit # {} THEN all ELSE ret.v)
        /\ ret.val.get_first = (IF hit # {} THEN all[1] ELSE ret.v)
        /\ Now(ret.m) = ret.before

\* C8, the caseless case: after add(k1, v) every casing k2 of k1 is
\* contained and get_all(k2) ends with v; in the base map another casing of
\* k1 gains nothing.
C8_AddThenLookup ==
  ret.op = "add" =>
     \A k2 \in Keys :
        LET old == Column(Pick(ret.before, Hits(ret.m, ret.before, k2), Len(ret.before)), 2)
        IN IF lower(k2) = lower(ret.k) /\ (Caseless(ret.m) \/ k2 = ret.k)
           THEN /\ __contains__(St, ret.m, k2)
                /\ __getitem__(St, ret.m, k2) = Append(old, ret.v)
           ELSE __getitem__(St, ret.m, k2) = old

\* C8: lookup goes through the normalization only: the results of a lookup
\* are as C8_Lookup says, and an added key is found under every casing in
\* the caseless map and under its own text only in the base map.
C8_Lookups == C8_Lookup /\ C8_AddThenLookup

\* a caseless lookup of "A" that finds an entry stored as "a"
C8_Witness ==
  /\ ret.op = "lookup" /\ Caseless(ret.m)
  /\ ret.k = <<65>>
  /\ ret.val.contains
  /\ \A i \in 1..Len(ret.before) : ret.before[i][1] # <<65>>
  /\ Len(ret.val.getitem) = 2

\* C9: delete(key) takes away the entries whose key matches and leaves the
\* others in their order; the key is then not contained; nothing changes
\* when no entry matches.
C9_Delete ==
  ret.op = "delitem" =>
     LET hit == Hits(ret.m, ret.before, ret.k)
     IN /\ Now(ret.m) = Pick(ret.before, (1..Len(ret.before)) \ hit, Len(ret.before))
        /\ ~__contains__(St, ret.m, ret.k)
        /\ hit = {} => Now(ret.m) = ret.before

\* a caseless delete that removed two casings and kept an entry between them
C9_Witness ==
  /\ ret.op = "delitem" /\ Caseless(ret.m)
  /\ Len(ret.before) = 3
  /\ ret.before[1][1] = <<97>> /\ ret.before[2][1] = <<98>> /\ ret.before[3][1] = <<65>>
  /\ Len(Now(ret.m)) = 1

\* C10: after a set_values that succeeded the caller's list is empty, and
\* a set_values with the emptied list takes away every entry matching the key.
C10_ListConsumed ==
  (ret.op = "setitem" /\ ret.val = "none") =>
     /\ valuelist = <<>>
     /\ ret.v = <<>> => ~__contains__(St, ret.m, ret.k)

\* the caller's list held two values before the call
C10_Witness ==
  /\ ret.op = "setitem" /\ ret.val = "none"
  /\ Len(ret.v) = 2
  /\ Hits(ret.m, ret.before, ret.k) # {}
  /\ valuelist = <<>>

====
